---- MODULE Spec2Model ----
(***************************************************************************)
(* Model of the background job manager of callable-api                     *)
(* (internal/background/manager.go, internal/background/job.go).           *)
(*                                                                         *)
(* One JobManager owns the map jobs (id -> *JobStatus) and the RWMutex     *)
(* jobsLock.  Every StartJob call allocates a fresh JobStatus object and   *)
(* a timeout context, and starts a supervisor goroutine, which in turn     *)
(* starts a worker goroutine running the caller's work function.           *)
(* Strings are modelled as sequences of tokens, "" being <<>>.             *)
(***************************************************************************)
EXTENDS Integers, Sequences, FiniteSets, TLC

\* ---------------------------------------------------------------- bounds
MaxTime == 2        \* last instant of the logical clock (time.Now())
MaxUpdates == 2     \* updateStatus calls in one behaviour of the one-job workload
MaxSnaps == 1       \* GetJobStatus calls in one behaviour of the one-job workload

JobIds == {"a", "b"}               \* jobID arguments of StartJob / GetJobStatus
Durations == {0, 1}                \* maxDuration arguments of StartJob
ErrVals == {"nil", "e1"}           \* values a work function returns ("nil" = nil)
PanicVals == {"boom"}              \* payloads a work function panics with

OlderThans == {0, 1}               \* olderThan arguments of CleanupCompletedJobs
ResultRefs == {"r1"}               \* the objects a result argument can point to

\* The workloads a behaviour is drawn from: how many StartJob, updateStatus,
\* GetJobStatus and CleanupCompletedJobs calls the callers and work functions
\* make, whether callers write through the snapshots they hold, and how long
\* the clock runs.  One job explored in depth, two concurrent jobs, a caller
\* that writes to its snapshots, and a sweeper beside one job, with progress
\* reports or with a longer clock.
Workloads ==
  { [jobs |-> 1, updates |-> MaxUpdates, snaps |-> MaxSnaps, sweeps |-> 0,
     muts |-> FALSE, time |-> MaxTime],
    [jobs |-> 2, updates |-> 1, snaps |-> 0, sweeps |-> 0, muts |-> FALSE,
     time |-> 1],
    [jobs |-> 2, updates |-> 0, snaps |-> 1, sweeps |-> 0, muts |-> FALSE,
     time |-> 1],
    [jobs |-> 1, updates |-> 1, snaps |-> 2, sweeps |-> 0, muts |-> TRUE,
     time |-> 1],
    [jobs |-> 1, updates |-> 1, snaps |-> 0, sweeps |-> 1, muts |-> FALSE,
     time |-> 2],
    [jobs |-> 1, updates |-> 0, snaps |-> 1, sweeps |-> 1, muts |-> FALSE,
     time |-> 3] }

Jobs == {1, 2}                     \* the JobStatus objects StartJob allocates
NoJob == 0                         \* absent map entry / nil pointer
ZeroTime == 0                      \* time.Time{}

\* ------------------------------------------------------------- variables
VARIABLES
  load,       \* the workload of this behaviour (never changes)
  now,        \* the wall clock read by time.Now()
  jobs,       \* m.jobs: jobID -> pointer to a JobStatus (NoJob when absent)
  heap,       \* the JobStatus objects: pointer -> field values
  jobsLock,   \* m.jobsLock: [w |-> exclusive holder or "free", r |-> set of readers]
  ctx,        \* per job: the context of WithTimeout: [deadline, err]
  done,       \* per job: the done channel is closed
  sup,        \* per job: position of the supervisor goroutine
  wrk,        \* per job: position of the worker goroutine
  workErr,    \* per job: the value the work function returned
  inTime,     \* per job: the work function returned before the deadline fired
  panicVal,   \* per job: the payload the work function panicked with ("nil" = none)
  nupd,       \* updateStatus calls made so far
  crashed,    \* the process died from an unrecovered panic
  started,    \* number of StartJob calls so far
  submitter,  \* the goroutine calling StartJob: [pc, job]
  poller,     \* the goroutine calling GetJobStatus: [pc, id, ptr, err]
  snap,       \* the values GetJobStatus has returned: [id, ptr, err, found]
  sweeper,    \* the goroutine calling CleanupCompletedJobs:
              \* [pc, olderThan, threshold, calls]
  robj        \* the objects Result values point to: reference -> content

vars == <<load, now, jobs, heap, jobsLock, ctx, done, sup, wrk, workErr,
          inTime, panicVal, nupd, crashed, started, submitter, poller, snap,
          sweeper, robj>>

\* ------------------------------------------------------------ the lock
Free == "free"
SupG(j) == <<"sup", j>>
WrkG(j) == <<"wrk", j>>
SubG == <<"submitter", 0>>
PollG == <<"poller", 0>>
SweepG == <<"sweeper", 0>>

\* sync.RWMutex.Lock can proceed
CanLock == jobsLock.w = <<Free, 0>> /\ jobsLock.r = {}
\* sync.RWMutex.RLock can proceed
CanRLock == jobsLock.w = <<Free, 0>>
Lock(g) == [jobsLock EXCEPT !.w = g]
Unlock == [jobsLock EXCEPT !.w = <<Free, 0>>]
RLock(g) == [jobsLock EXCEPT !.r = @ \cup {g}]
RUnlock(g) == [jobsLock EXCEPT !.r = @ \ {g}]

\* --------------------------------------------------------- pure helpers
\* err.Error(): the message of an error value
ErrorMsg(e) == <<e>>

\* stringify: "nil" for a nil payload, fmt.Sprintf("%v", v) otherwise
stringify(v) == IF v = "nil" THEN <<"nil">> ELSE <<v>>

TimeoutMsg == <<"Job timeout: excedeu o tempo maximo permitido">>
PanicMsg(r) == <<"Panic in background job: ">> \o stringify(r)

\* &JobStatus{ID, State: "pending", Progress: 0, StartTime: time.Now()}
NewStatus(id, t) ==
  [ID |-> id, State |-> "pending", Progress |-> 0, StartTime |-> t,
   CompletionTime |-> ZeroTime, EstimatedCompletion |-> ZeroTime,
   Error |-> <<>>, Result |-> "nil"]

Terminal(s) == s \in {"completed", "failed"}

Alive == ~crashed

\* ------------------------------------------------------------------ Init
Init ==
  /\ load \in Workloads
  /\ now = 1
  /\ jobs = [id \in JobIds |-> NoJob]
  /\ heap = <<>>
  /\ jobsLock = [w |-> <<Free, 0>>, r |-> {}]
  /\ ctx = [j \in Jobs |-> [deadline |-> 0, err |-> "unborn"]]
  /\ done = [j \in Jobs |-> FALSE]
  /\ sup = [j \in Jobs |-> "none"]
  /\ wrk = [j \in Jobs |-> "none"]
  /\ workErr = [j \in Jobs |-> "nil"]
  /\ inTime = [j \in Jobs |-> FALSE]
  /\ panicVal = [j \in Jobs |-> "nil"]
  /\ nupd = 0
  /\ crashed = FALSE
  /\ started = 0
  /\ submitter = [pc |-> "idle", job |-> NoJob]
  /\ poller = [pc |-> "idle", id |-> "a", ptr |-> NoJob, err |-> <<>>]
  /\ snap = <<>>
  /\ sweeper = [pc |-> "idle", olderThan |-> 0, threshold |-> 0, calls |-> 0]
  /\ robj = [r \in ResultRefs |-> "fresh"]

\* ------------------------------------------------------------ the clock
\* time passes
Tick ==
  /\ Alive
  /\ now < load.time
  /\ now' = now + 1
  /\ UNCHANGED <<load, jobs, heap, jobsLock, ctx, done, sup, wrk, workErr,
                 inTime, panicVal, nupd, crashed, started, submitter, poller,
                 snap, sweeper, robj>>

\* the timer of context.WithTimeout expires: ctx.Done() is closed
DeadlineFires(j) ==
  /\ Alive
  /\ ctx[j].err = "none"
  /\ now >= ctx[j].deadline
  /\ ctx' = [ctx EXCEPT ![j].err = "deadline"]
  /\ UNCHANGED <<load, now, jobs, heap, jobsLock, done, sup, wrk, workErr,
                 inTime, panicVal, nupd, crashed, started, submitter, poller,
                 snap, sweeper, robj>>

\* -------------------------------------------------------------- StartJob
\* a StartJob that keeps the registered record when the id is already in use
StartJobInsertKeepsFirst(id, d) ==
  /\ Alive
  /\ submitter.pc = "idle"
  /\ started < load.jobs
  /\ now + d <= load.time
  /\ CanLock
  /\ LET j == started + 1 IN
       /\ ctx' = [ctx EXCEPT ![j] = [deadline |-> now + d, err |-> "none"]]
       /\ heap' = heap @@ (j :> NewStatus(id, now))
       /\ jobs' = IF jobs[id] # NoJob THEN jobs ELSE [jobs EXCEPT ![id] = j]
       /\ started' = j
       /\ submitter' = [pc |-> "inserted", job |-> j]
  /\ jobsLock' = Lock(SubG)
  /\ UNCHANGED <<load, now, done, sup, wrk, workErr, inTime, panicVal, nupd,
                 crashed, poller, snap, sweeper, robj>>

\* StartJob up to m.jobs[jobID] = status, under the exclusive lock
StartJobInsert(id, d) ==
  /\ Alive
  /\ submitter.pc = "idle"
  /\ started < load.jobs
  /\ now + d <= load.time
  /\ CanLock
  /\ LET j == started + 1 IN
       /\ ctx' = [ctx EXCEPT ![j] = [deadline |-> now + d, err |-> "none"]]
       /\ heap' = heap @@ (j :> NewStatus(id, now))
       /\ jobs' = [jobs EXCEPT ![id] = j]
       /\ started' = j
       /\ submitter' = [pc |-> "inserted", job |-> j]
  /\ jobsLock' = Lock(SubG)
  /\ UNCHANGED <<load, now, done, sup, wrk, workErr, inTime, panicVal, nupd,
                 crashed, poller, snap, sweeper, robj>>

\* a StartJob that returns only while no work function is running
StartJobGoWhenNoWork ==
  /\ Alive
  /\ submitter.pc = "inserted"
  /\ \A i \in Jobs : wrk[i] # "running"
  /\ jobsLock' = Unlock
  /\ sup' = [sup EXCEPT ![submitter.job] = "start"]
  /\ submitter' = [pc |-> "idle", job |-> NoJob]
  /\ UNCHANGED <<load, now, jobs, heap, ctx, done, wrk, workErr, inTime,
                 panicVal, nupd, crashed, started, poller, snap, sweeper, robj>>

\* StartJob from m.jobsLock.Unlock() on: starts the supervisor and returns
StartJobGo ==
  /\ Alive
  /\ submitter.pc = "inserted"
  /\ jobsLock' = Unlock
  /\ sup' = [sup EXCEPT ![submitter.job] = "start"]
  /\ submitter' = [pc |-> "idle", job |-> NoJob]
  /\ UNCHANGED <<load, now, jobs, heap, ctx, done, wrk, workErr, inTime,
                 panicVal, nupd, crashed, started, poller, snap, sweeper, robj>>

\* ------------------------------------------------------------ supervisor
\* the write of "processing" made without taking jobsLock
SupProcessingUnlocked(j) ==
  /\ Alive
  /\ sup[j] = "start"
  /\ heap' = [heap EXCEPT ![j].State = "processing"]
  /\ sup' = [sup EXCEPT ![j] = "procLocked"]
  /\ UNCHANGED <<load, now, jobs, jobsLock, ctx, done, wrk, workErr, inTime,
                 panicVal, nupd, crashed, started, submitter, poller, snap,
                 sweeper, robj>>

\* status.State = "processing", under the exclusive lock
SupProcessing(j) ==
  /\ Alive
  /\ sup[j] = "start"
  /\ CanLock
  /\ jobsLock' = Lock(SupG(j))
  /\ heap' = [heap EXCEPT ![j].State = "processing"]
  /\ sup' = [sup EXCEPT ![j] = "procLocked"]
  /\ UNCHANGED <<load, now, jobs, ctx, done, wrk, workErr, inTime, panicVal,
                 nupd, crashed, started, submitter, poller, snap, sweeper, robj>>

\* Unlock, make(chan struct{}), go func() { err := job(ctx, updateStatus) ... }
SupSpawnWorker(j) ==
  /\ Alive
  /\ sup[j] = "procLocked"
  /\ jobsLock' = Unlock
  /\ wrk' = [wrk EXCEPT ![j] = "spawned"]
  /\ sup' = [sup EXCEPT ![j] = "select"]
  /\ UNCHANGED <<load, now, jobs, heap, ctx, done, workErr, inTime, panicVal,
                 nupd, crashed, started, submitter, poller, snap, sweeper, robj>>

\* a select that also leaves when the record is already "completed"
SupSelectDoneOrCompleted(j) ==
  /\ Alive
  /\ sup[j] = "select"
  /\ done[j] \/ heap[j].State = "completed"
  /\ sup' = [sup EXCEPT ![j] = "defer"]
  /\ UNCHANGED <<load, now, jobs, heap, jobsLock, ctx, done, wrk, workErr,
                 inTime, panicVal, nupd, crashed, started, submitter, poller,
                 snap, sweeper, robj>>

\* select: case <-done
SupSelectDone(j) ==
  /\ Alive
  /\ sup[j] = "select"
  /\ done[j]
  /\ sup' = [sup EXCEPT ![j] = "defer"]
  /\ UNCHANGED <<load, now, jobs, heap, jobsLock, ctx, done, wrk, workErr,
                 inTime, panicVal, nupd, crashed, started, submitter, poller,
                 snap, sweeper, robj>>

\* a select that takes the timeout branch whether or not ctx is done
SupSelectTimeoutAnytime(j) ==
  /\ Alive
  /\ sup[j] = "select"
  /\ sup' = [sup EXCEPT ![j] = "timeout"]
  /\ UNCHANGED <<load, now, jobs, heap, jobsLock, ctx, done, wrk, workErr,
                 inTime, panicVal, nupd, crashed, started, submitter, poller,
                 snap, sweeper, robj>>

\* select: case <-ctx.Done()
SupSelectTimeout(j) ==
  /\ Alive
  /\ sup[j] = "select"
  /\ ctx[j].err # "none"
  /\ sup' = [sup EXCEPT ![j] = "timeout"]
  /\ UNCHANGED <<load, now, jobs, heap, jobsLock, ctx, done, wrk, workErr,
                 inTime, panicVal, nupd, crashed, started, submitter, poller,
                 snap, sweeper, robj>>

\* the ctx.Done() branch without its test of status.State
TimeoutWriteUnguarded(s, t) ==
  [s EXCEPT !.State = "failed", !.Error = TimeoutMsg, !.CompletionTime = t]

\* a ctx.Done() branch that writes unless the record is "completed"
TimeoutWriteUnlessCompleted(s, t) ==
  IF s.State # "completed"
    THEN [s EXCEPT !.State = "failed", !.Error = TimeoutMsg, !.CompletionTime = t]
    ELSE s

\* the record after the critical section of the ctx.Done() branch
TimeoutWrite(s, t) ==
  IF s.State = "processing"
    THEN [s EXCEPT !.State = "failed", !.Error = TimeoutMsg, !.CompletionTime = t]
    ELSE s

\* a timeout branch that applies its write to the record of every job
SupTimeoutWriteAll(j) ==
  /\ Alive
  /\ sup[j] = "timeout"
  /\ CanLock
  /\ jobsLock' = Lock(SupG(j))
  /\ heap' = [p \in DOMAIN heap |->
               IF p \in Jobs THEN TimeoutWrite(heap[p], now) ELSE heap[p]]
  /\ sup' = [sup EXCEPT ![j] = "timeoutLocked"]
  /\ UNCHANGED <<load, now, jobs, ctx, done, wrk, workErr, inTime, panicVal,
                 nupd, crashed, started, submitter, poller, snap, sweeper, robj>>

\* the critical section of the ctx.Done() branch
SupTimeoutWrite(j) ==
  /\ Alive
  /\ sup[j] = "timeout"
  /\ CanLock
  /\ jobsLock' = Lock(SupG(j))
  /\ heap' = [heap EXCEPT ![j] = TimeoutWrite(heap[j], now)]
  /\ sup' = [sup EXCEPT ![j] = "timeoutLocked"]
  /\ UNCHANGED <<load, now, jobs, ctx, done, wrk, workErr, inTime, panicVal,
                 nupd, crashed, started, submitter, poller, snap, sweeper, robj>>

SupTimeoutUnlock(j) ==
  /\ Alive
  /\ sup[j] = "timeoutLocked"
  /\ jobsLock' = Unlock
  /\ sup' = [sup EXCEPT ![j] = "defer"]
  /\ UNCHANGED <<load, now, jobs, heap, ctx, done, wrk, workErr, inTime,
                 panicVal, nupd, crashed, started, submitter, poller, snap,
                 sweeper, robj>>

\* the record after the deferred function's recover() branch, r the recovered value
RecoverWrite(s, r, t) ==
  IF r # "nil"
    THEN [s EXCEPT !.State = "failed", !.Error = PanicMsg(r), !.CompletionTime = t]
    ELSE s

\* context.CancelFunc: the first of deadline expiry and cancel() sets ctx.Err()
Cancel(c) == IF c.err = "none" THEN [c EXCEPT !.err = "canceled"] ELSE c

\* recover() in the supervisor's deferred function: the value of a panic of the
\* supervisor goroutine itself, nil as none of its own calls panics
Recovered(j) == "nil"

\* the deferred function of the supervisor goroutine: recover(), then cancel()
SupDefer(j) ==
  /\ Alive
  /\ sup[j] = "defer"
  /\ Recovered(j) # "nil" => CanLock
  /\ heap' = [heap EXCEPT ![j] = RecoverWrite(heap[j], Recovered(j), now)]
  /\ ctx' = [ctx EXCEPT ![j] = Cancel(ctx[j])]
  /\ sup' = [sup EXCEPT ![j] = "exited"]
  /\ UNCHANGED <<load, now, jobs, jobsLock, done, wrk, workErr, inTime,
                 panicVal, nupd, crashed, started, submitter, poller, snap,
                 sweeper, robj>>

\* ---------------------------------------------------------------- worker
\* the worker goroutine is scheduled and calls job(ctx, updateStatus)
WorkBegin(j) ==
  /\ Alive
  /\ wrk[j] = "spawned"
  /\ wrk' = [wrk EXCEPT ![j] = "running"]
  /\ UNCHANGED <<load, now, jobs, heap, jobsLock, ctx, done, sup, workErr,
                 inTime, panicVal, nupd, crashed, started, submitter, poller,
                 snap, sweeper, robj>>

\* an updateStatus that also marks the job "processing" on every report below 100
UpdateWriteMarksProcessing(s, progress, est, result, t) ==
  LET s1 == [s EXCEPT !.Progress = progress,
                      !.State = IF progress < 100 THEN "processing" ELSE @]
      s2 == IF est # {} THEN [s1 EXCEPT !.EstimatedCompletion = CHOOSE e \in est : TRUE]
                        ELSE s1
      s3 == IF result # "nil" THEN [s2 EXCEPT !.Result = result] ELSE s2
  IN IF result # "nil" /\ s3.State = "processing" /\ progress >= 100
       THEN [s3 EXCEPT !.State = "completed", !.CompletionTime = t]
       ELSE s3

\* an updateStatus that completes the job on progress >= 100 alone
UpdateWriteCompletesAt100(s, progress, est, result, t) ==
  LET s1 == [s EXCEPT !.Progress = progress]
      s2 == IF est # {} THEN [s1 EXCEPT !.EstimatedCompletion = CHOOSE e \in est : TRUE]
                        ELSE s1
      s3 == IF result # "nil" THEN [s2 EXCEPT !.Result = result] ELSE s2
  IN IF s3.State = "processing" /\ progress >= 100
       THEN [s3 EXCEPT !.State = "completed", !.CompletionTime = t]
       ELSE s3

\* the record after the body of the updateStatus closure
UpdateWrite(s, progress, est, result, t) ==
  LET s1 == [s EXCEPT !.Progress = progress]
      s2 == IF est # {} THEN [s1 EXCEPT !.EstimatedCompletion = CHOOSE e \in est : TRUE]
                        ELSE s1
      s3 == IF result # "nil" THEN [s2 EXCEPT !.Result = result] ELSE s2
  IN IF result # "nil" /\ s3.State = "processing" /\ progress >= 100
       THEN [s3 EXCEPT !.State = "completed", !.CompletionTime = t]
       ELSE s3

\* the work function calls updateStatus(progress, estimatedCompletion, result)
updateStatus(j, progress, est, result) ==
  /\ Alive
  /\ wrk[j] = "running"
  /\ nupd < load.updates
  /\ CanLock
  /\ jobsLock' = Lock(WrkG(j))
  /\ heap' = [heap EXCEPT ![j] = UpdateWrite(heap[j], progress, est, result, now)]
  /\ nupd' = nupd + 1
  /\ wrk' = [wrk EXCEPT ![j] = "inUpdate"]
  /\ UNCHANGED <<load, now, jobs, ctx, done, sup, workErr, inTime, panicVal,
                 crashed, started, submitter, poller, snap, sweeper, robj>>

\* updateStatus returns (deferred Unlock)
updateStatusReturn(j) ==
  /\ Alive
  /\ wrk[j] = "inUpdate"
  /\ jobsLock' = Unlock
  /\ wrk' = [wrk EXCEPT ![j] = "running"]
  /\ UNCHANGED <<load, now, jobs, heap, ctx, done, sup, workErr, inTime,
                 panicVal, nupd, crashed, started, submitter, poller, snap,
                 sweeper, robj>>

\* err := job(ctx, updateStatus): the work function returns err
WorkReturn(j, err) ==
  /\ Alive
  /\ wrk[j] = "running"
  /\ workErr' = [workErr EXCEPT ![j] = err]
  /\ inTime' = [inTime EXCEPT ![j] = ctx[j].err # "deadline"]
  /\ wrk' = [wrk EXCEPT ![j] = "returned"]
  /\ UNCHANGED <<load, now, jobs, heap, jobsLock, ctx, done, sup, panicVal,
                 nupd, crashed, started, submitter, poller, snap, sweeper, robj>>

\* the work function panics with payload p.  job is called by the worker
\* goroutine (go func() { err := job(ctx, updateStatus) ... }), which defers no
\* recover: the panic unwinds that goroutine and the runtime ends the process
WorkPanic(j, p) ==
  /\ Alive
  /\ wrk[j] = "running"
  /\ wrk' = [wrk EXCEPT ![j] = "panicked"]
  /\ panicVal' = [panicVal EXCEPT ![j] = p]
  /\ crashed' = TRUE
  /\ UNCHANGED <<load, now, jobs, heap, jobsLock, ctx, done, sup, workErr,
                 inTime, nupd, started, submitter, poller, snap, sweeper, robj>>

\* a worker write that sets the terminal State without CompletionTime
TerminalWriteNoTime(s, err, t) ==
  IF err # "nil"
    THEN [s EXCEPT !.State = "failed", !.Error = ErrorMsg(err)]
    ELSE IF s.State # "completed"
      THEN [s EXCEPT !.State = "completed", !.Progress = 100]
      ELSE s

\* the record after the worker's critical section, err the work function's result
TerminalWrite(s, err, t) ==
  IF err # "nil"
    THEN [s EXCEPT !.State = "failed", !.Error = ErrorMsg(err), !.CompletionTime = t]
    ELSE IF s.State # "completed"
      THEN [s EXCEPT !.State = "completed", !.Progress = 100, !.CompletionTime = t]
      ELSE s

\* a worker write that also stores the record back under its id
WorkerTerminalWriteReinserts(j) ==
  /\ Alive
  /\ wrk[j] = "returned"
  /\ CanLock
  /\ jobsLock' = Lock(WrkG(j))
  /\ heap' = [heap EXCEPT ![j] = TerminalWrite(heap[j], workErr[j], now)]
  /\ jobs' = [jobs EXCEPT ![heap[j].ID] = j]
  /\ wrk' = [wrk EXCEPT ![j] = "termLocked"]
  /\ UNCHANGED <<load, now, ctx, done, sup, workErr, inTime, panicVal, nupd,
                 crashed, started, submitter, poller, snap, sweeper, robj>>

\* the worker's critical section after job(ctx, updateStatus) has returned
WorkerTerminalWrite(j) ==
  /\ Alive
  /\ wrk[j] = "returned"
  /\ CanLock
  /\ jobsLock' = Lock(WrkG(j))
  /\ heap' = [heap EXCEPT ![j] = TerminalWrite(heap[j], workErr[j], now)]
  /\ wrk' = [wrk EXCEPT ![j] = "termLocked"]
  /\ UNCHANGED <<load, now, jobs, ctx, done, sup, workErr, inTime, panicVal,
                 nupd, crashed, started, submitter, poller, snap, sweeper, robj>>

\* Unlock, close(done)
WorkerCloseDone(j) ==
  /\ Alive
  /\ wrk[j] = "termLocked"
  /\ jobsLock' = Unlock
  /\ done' = [done EXCEPT ![j] = TRUE]
  /\ wrk' = [wrk EXCEPT ![j] = "exited"]
  /\ UNCHANGED <<load, now, jobs, heap, ctx, sup, workErr, inTime, panicVal,
                 nupd, crashed, started, submitter, poller, snap, sweeper, robj>>

\* ---------------------------------------------------------- GetJobStatus
\* a GetJobStatus that returns the registry's own pointer
SnapshotPtrShared(statusPtr, copyPtr) == statusPtr

\* the pointer GetJobStatus returns for a present job: &statusCopy
SnapshotPtr(statusPtr, copyPtr) == copyPtr

\* fmt.Errorf("job nao encontrado: %s", jobID).Error()
NotFoundMsg(id) == <<"job nao encontrado: ", id>>

\* a lookup that reports a registered job in State "failed" as not found
GetJobStatusResultFailedHidden(statusPtr, copyPtr, id) ==
  IF statusPtr # NoJob /\ heap[statusPtr].State # "failed"
    THEN [ptr |-> SnapshotPtr(statusPtr, copyPtr), err |-> <<>>]
    ELSE [ptr |-> NoJob, err |-> NotFoundMsg(id)]

\* what GetJobStatus returns: (&statusCopy, nil) for a registered id, else
\* (nil, error); statusPtr is m.jobs[jobID]
GetJobStatusResult(statusPtr, copyPtr, id) ==
  IF statusPtr # NoJob
    THEN [ptr |-> SnapshotPtr(statusPtr, copyPtr), err |-> <<>>]
    ELSE [ptr |-> NoJob, err |-> NotFoundMsg(id)]

\* GetJobStatus under the shared lock: lookup and statusCopy := *status
GetJobStatusRead(id) ==
  /\ Alive
  /\ poller.pc = "idle"
  /\ Len(snap) < load.snaps
  /\ CanRLock
  /\ jobsLock' = RLock(PollG)
  /\ LET copyPtr == Cardinality(Jobs) + Len(snap) + 1
         res == GetJobStatusResult(jobs[id], copyPtr, id) IN
       /\ heap' = IF jobs[id] # NoJob THEN heap @@ (copyPtr :> heap[jobs[id]])
                                     ELSE heap
       /\ poller' = [pc |-> "read", id |-> id, ptr |-> res.ptr, err |-> res.err]
  /\ UNCHANGED <<load, now, jobs, ctx, done, sup, wrk, workErr, inTime,
                 panicVal, nupd, crashed, started, submitter, snap, sweeper,
                 robj>>

\* GetJobStatus returns (deferred RUnlock): (ptr, nil) or (nil, error)
GetJobStatusReturn ==
  /\ Alive
  /\ poller.pc = "read"
  /\ jobsLock' = RUnlock(PollG)
  /\ snap' = Append(snap, [id |-> poller.id, ptr |-> poller.ptr,
                           err |-> poller.err, found |-> poller.ptr # NoJob])
  /\ poller' = [pc |-> "idle", id |-> "a", ptr |-> NoJob, err |-> <<>>]
  /\ UNCHANGED <<load, now, jobs, heap, ctx, done, sup, wrk, workErr, inTime,
                 panicVal, nupd, crashed, started, submitter, sweeper, robj>>

\* -------------------------------------------------- CleanupCompletedJobs
\* a sweep that also deletes the records started exactly at the threshold
SweptNotAfter(jobsMap, threshold) ==
  [id \in DOMAIN jobsMap |->
     IF /\ jobsMap[id] # NoJob
        /\ Terminal(heap[jobsMap[id]].State)
        /\ heap[jobsMap[id]].StartTime <= threshold
       THEN NoJob
       ELSE jobsMap[id]]

\* the map after the sweep: every entry whose record is "completed" or "failed"
\* with StartTime.Before(threshold) is deleted
Swept(jobsMap, threshold) ==
  [id \in DOMAIN jobsMap |->
     IF /\ jobsMap[id] # NoJob
        /\ Terminal(heap[jobsMap[id]].State)
        /\ heap[jobsMap[id]].StartTime < threshold
       THEN NoJob
       ELSE jobsMap[id]]

\* CleanupCompletedJobs is called: threshold := time.Now().Add(-olderThan)
CleanupBegin(olderThan) ==
  /\ Alive
  /\ sweeper.pc = "idle"
  /\ sweeper.calls < load.sweeps
  /\ sweeper' = [pc |-> "called", olderThan |-> olderThan,
                 threshold |-> now - olderThan, calls |-> sweeper.calls + 1]
  /\ UNCHANGED <<load, now, jobs, heap, jobsLock, ctx, done, sup, wrk, workErr,
                 inTime, panicVal, nupd, crashed, started, submitter, poller,
                 snap, robj>>

\* the loop over m.jobs, under the exclusive lock
CleanupSweep ==
  /\ Alive
  /\ sweeper.pc = "called"
  /\ CanLock
  /\ jobsLock' = Lock(SweepG)
  /\ jobs' = Swept(jobs, sweeper.threshold)
  /\ sweeper' = [sweeper EXCEPT !.pc = "swept"]
  /\ UNCHANGED <<load, now, heap, ctx, done, sup, wrk, workErr, inTime,
                 panicVal, nupd, crashed, started, submitter, poller, snap,
                 robj>>

\* CleanupCompletedJobs returns (deferred Unlock)
CleanupReturn ==
  /\ Alive
  /\ sweeper.pc = "swept"
  /\ jobsLock' = Unlock
  /\ sweeper' = [sweeper EXCEPT !.pc = "idle"]
  /\ UNCHANGED <<load, now, jobs, heap, ctx, done, sup, wrk, workErr, inTime,
                 panicVal, nupd, crashed, started, submitter, poller, snap,
                 robj>>

\* ------------------------------------------- callers holding a snapshot
\* the holder of snapshot k assigns to a field of the *JobStatus it was given
MutateSnapshotField(k) ==
  /\ Alive
  /\ load.muts
  /\ snap[k].found
  /\ heap[snap[k].ptr].Progress # -1
  /\ heap' = [heap EXCEPT ![snap[k].ptr].Progress = -1]
  /\ UNCHANGED <<load, now, jobs, jobsLock, ctx, done, sup, wrk, workErr,
                 inTime, panicVal, nupd, crashed, started, submitter, poller,
                 snap, sweeper, robj>>

\* the holder of snapshot k writes to the object its Result field points to
MutateSnapshotResult(k) ==
  /\ Alive
  /\ load.muts
  /\ snap[k].found
  /\ heap[snap[k].ptr].Result # "nil"
  /\ robj[heap[snap[k].ptr].Result] # "mutated"
  /\ robj' = [robj EXCEPT ![heap[snap[k].ptr].Result] = "mutated"]
  /\ UNCHANGED <<load, now, jobs, heap, jobsLock, ctx, done, sup, wrk, workErr,
                 inTime, panicVal, nupd, crashed, started, submitter, poller,
                 snap, sweeper>>

CallerFieldWrite == \E k \in 1..Len(snap) : MutateSnapshotField(k)

CallerResultWrite == \E k \in 1..Len(snap) : MutateSnapshotResult(k)

\* a caller writes through a snapshot it holds
CallerWrites == CallerFieldWrite \/ CallerResultWrite

\* ------------------------------------------------------------------ Next
\* the (progress, estimatedCompletion, result) arguments of updateStatus;
\* estimatedCompletion is {} for nil and {t} for a pointer to the time t
UpdateArgs ==
  { <<50, {}, "nil">>, <<100, {}, "nil">>, <<100, {}, "r1">>,
    <<150, {now + 1}, "r1">>, <<50, {now + 1}, "r1">> }

\* the work function of job j reports progress
WorkUpdate(j) == \E a \in UpdateArgs : updateStatus(j, a[1], a[2], a[3])

Next ==
  \/ Tick
  \/ \E j \in Jobs : DeadlineFires(j)
  \/ \E id \in JobIds, d \in Durations : StartJobInsert(id, d)
  \/ StartJobGo
  \/ \E j \in Jobs : SupProcessing(j)
  \/ \E j \in Jobs : SupSpawnWorker(j)
  \/ \E j \in Jobs : SupSelectDone(j)
  \/ \E j \in Jobs : SupSelectTimeout(j)
  \/ \E j \in Jobs : SupTimeoutWrite(j)
  \/ \E j \in Jobs : SupTimeoutUnlock(j)
  \/ \E j \in Jobs : SupDefer(j)
  \/ \E j \in Jobs : WorkBegin(j)
  \/ \E j \in Jobs : WorkUpdate(j)
  \/ \E j \in Jobs : updateStatusReturn(j)
  \/ \E j \in Jobs, err \in ErrVals : WorkReturn(j, err)
  \/ \E j \in Jobs, p \in PanicVals : WorkPanic(j, p)
  \/ \E j \in Jobs : WorkerTerminalWrite(j)
  \/ \E j \in Jobs : WorkerCloseDone(j)
  \/ \E id \in JobIds : GetJobStatusRead(id)
  \/ GetJobStatusReturn
  \/ \E o \in OlderThans : CleanupBegin(o)
  \/ CleanupSweep
  \/ CleanupReturn
  \/ CallerFieldWrite
  \/ CallerResultWrite

Spec == Init /\ [][Next]_vars

\* Go schedules every runnable goroutine, timers fire, and jobsLock is granted to
\* every waiter: the steps of the manager's own code are fair.  What a work
\* function or a caller decides to do next (call updateStatus, return, panic,
\* submit, poll) is not.
FairSpec ==
  /\ Spec
  /\ WF_vars(Tick)
  /\ WF_vars(StartJobGo)
  /\ WF_vars(GetJobStatusReturn)
  /\ WF_vars(CleanupSweep)
  /\ WF_vars(CleanupReturn)
  /\ \A j \in Jobs :
       /\ WF_vars(DeadlineFires(j))
       /\ WF_vars(SupProcessing(j))
       /\ WF_vars(SupSpawnWorker(j))
       /\ WF_vars(SupSelectDone(j) \/ SupSelectTimeout(j))
       /\ WF_vars(SupTimeoutWrite(j))
       /\ WF_vars(SupTimeoutUnlock(j))
       /\ WF_vars(SupDefer(j))
       /\ WF_vars(WorkBegin(j))
       /\ WF_vars(updateStatusReturn(j))
       /\ WF_vars(WorkerTerminalWrite(j))
       /\ WF_vars(WorkerCloseDone(j))

\* ------------------------------------------------------- the properties
\* the jobs StartJob has created so far
Started == {j \in Jobs : j <= started}

\* both goroutines of job j have ended: nothing writes its record any more
Quiet(j) == sup[j] = "exited" /\ wrk[j] = "exited"

\* C1: once a record's State is "completed" it is never written "failed", and
\* once "failed" never "completed".
C1_TerminalStatesFinal ==
  [][\A j \in Started :
       /\ heap[j].State = "completed" => heap'[j].State # "failed"
       /\ heap[j].State = "failed" => heap'[j].State # "completed"]_vars

\* C2: a job whose work function had not returned when the deadline fired ends,
\* once its goroutines are done, "failed" with the timeout message and a set
\* CompletionTime.
C2_TimeoutIsFinal ==
  \A j \in Started :
    (ctx[j].err = "deadline" /\ ~inTime[j] /\ Quiet(j)) =>
      /\ heap[j].State = "failed"
      /\ heap[j].Error = TimeoutMsg
      /\ heap[j].CompletionTime # ZeroTime

\* C3: a panic of a work function never ends the process.
C3_PanicContained ==
  \A j \in Jobs : wrk[j] = "panicked" => ~crashed

\* C4: a job whose work function panicked with payload p eventually has a record
\* that is "failed", with the description of p in Error and CompletionTime set.
C4_PanicRecorded ==
  \A j \in Jobs :
    (wrk[j] = "panicked") ~>
      /\ j \in Started
      /\ heap[j].State = "failed"
      /\ heap[j].Error = PanicMsg(panicVal[j])
      /\ heap[j].CompletionTime # ZeroTime

\* C5: a job whose work function returned nil before the deadline ends
\* "completed" with Progress 100, whatever updateStatus calls it made.
C5_SuccessIsComplete ==
  \A j \in Started :
    (inTime[j] /\ workErr[j] = "nil" /\ Quiet(j)) =>
      /\ heap[j].State = "completed"
      /\ heap[j].Progress = 100

\* C6: from the worker's terminal write on, a job whose work function returned
\* the error e before the deadline is "failed" with Error = e.Error(); the
\* supervisor's later steps, a deadline expiry included, keep that Error.
C6_ErrorIsFinal ==
  \A j \in Started :
    (inTime[j] /\ workErr[j] # "nil" /\ wrk[j] \in {"termLocked", "exited"}) =>
      /\ heap[j].State = "failed"
      /\ heap[j].Error = ErrorMsg(workErr[j])

\* the supervisor took the timeout branch after the work function's error was
\* recorded, and the error is still there
C6_Witness ==
  \E j \in Started :
    /\ inTime[j] /\ workErr[j] = "e1" /\ wrk[j] = "exited"
    /\ ctx[j].err = "deadline" /\ sup[j] = "timeoutLocked"
    /\ heap[j].Error = ErrorMsg("e1")

\* C7: an updateStatus call on a record in a terminal state changes no field
\* of it.
C7_UpdateAfterTerminalNoOp ==
  [][\A j \in Started :
       (wrk[j] = "running" /\ wrk'[j] = "inUpdate" /\ Terminal(heap[j].State))
         => heap'[j] = heap[j]]_vars

\* pending < processing < {completed, failed}
Rank(state) == CASE state = "pending" -> 0
                 [] state = "processing" -> 1
                 [] OTHER -> 2

\* C8: State never goes back to "pending" or "processing" and never goes from
\* "pending" straight to a terminal state; the work function runs only once
\* "processing" has been written.
C8_StateMovesForward ==
  /\ [][\A j \in Started :
          /\ Rank(heap'[j].State) >= Rank(heap[j].State)
          /\ Rank(heap'[j].State) <= Rank(heap[j].State) + 1]_vars
  /\ [](\A j \in Started : wrk[j] # "none" => heap[j].State # "pending")

\* a record has gone from "failed" (timeout) on to "completed": it moved between
\* terminal states, never backwards
C8_Witness ==
  \E j \in Started : heap[j].State = "completed" /\ heap[j].Error = TimeoutMsg

\* C9: every submitted job's record eventually reaches a terminal state, also
\* when its work function never returns.
C9_EventuallyTerminal ==
  \A j \in Jobs : (j \in Started) ~> (j \in Started /\ Terminal(heap[j].State))

\* C10: no step of the job manager changes a field seen through a snapshot that
\* GetJobStatus returned earlier.
C10_SnapshotStable ==
  [][CallerWrites \/
     \A k \in 1..Len(snap) :
       snap[k].found => heap'[snap[k].ptr] = heap[snap[k].ptr]]_vars

\* a returned snapshot still shows "processing" although its job has since been
\* written "completed" or "failed"
C10_Witness ==
  \E k \in 1..Len(snap) :
    /\ snap[k].found
    /\ heap[snap[k].ptr].State = "processing"
    /\ jobs[snap[k].id] # NoJob
    /\ heap[jobs[snap[k].id]].ID = heap[snap[k].ptr].ID
    /\ heap[jobs[snap[k].id]].StartTime = heap[snap[k].ptr].StartTime
    /\ Terminal(heap[jobs[snap[k].id]].State)

\* everything reachable from the record at ptr: its fields, with the object
\* behind Result in place of the reference to it
Reachable(h, o, ptr) ==
  [h[ptr] EXCEPT !.Result = IF @ = "nil" THEN "nil" ELSE o[@]]

\* C11: a write by the holder of a snapshot, to one of the snapshot's fields
\* or to the object its Result points to, changes nothing reachable from a
\* registry record nor from any other snapshot.
C11_NoAliasing ==
  [][\A k \in 1..Len(snap) :
       (MutateSnapshotField(k) \/ MutateSnapshotResult(k)) =>
         /\ \A j \in Started :
              Reachable(heap', robj', j) = Reachable(heap, robj, j)
         /\ \A m \in (1..Len(snap)) \ {k} :
              snap[m].found =>
                Reachable(heap', robj', snap[m].ptr)
                  = Reachable(heap, robj, snap[m].ptr)]_vars

\* C12: every step that writes a JobStatus record or the jobs map takes the
\* exclusive lock in that step and holds it afterwards, a record being written
\* only by a goroutine of its own job; every step that reads a record or the
\* map holds the lock, shared or exclusive, afterwards; and the exclusive lock
\* is never held together with a shared one.
C12_LockDiscipline ==
  [][/\ \A j \in Started :
          heap'[j] # heap[j] => CanLock /\ jobsLock'.w \in {SupG(j), WrkG(j)}
     /\ jobs' # jobs => CanLock /\ jobsLock'.w \in {SubG, SweepG}
     /\ (poller.pc = "idle" /\ poller'.pc = "read") =>
          CanRLock /\ PollG \in jobsLock'.r
     /\ (sweeper.pc = "called" /\ sweeper'.pc = "swept") =>
          CanLock /\ jobsLock'.w = SweepG
     /\ jobsLock'.w # <<Free, 0>> => jobsLock'.r = {}]_vars

\* the worker holds the exclusive lock for its terminal write while the
\* supervisor of the same job, past its deadline, waits to write the timeout
C12_Witness ==
  \E j \in Jobs :
    jobsLock.w = WrkG(j) /\ wrk[j] = "termLocked" /\ sup[j] = "timeout"

\* every goroutine holding jobsLock stands at a position whose next step
\* releases it: none is running a work function or waiting in the select
HolderAboutToRelease ==
  /\ \A j \in Jobs :
       /\ jobsLock.w = SupG(j) => sup[j] \in {"procLocked", "timeoutLocked"}
       /\ jobsLock.w = WrkG(j) => wrk[j] \in {"inUpdate", "termLocked"}
  /\ jobsLock.w = SubG => submitter.pc = "inserted"
  /\ jobsLock.w = SweepG => sweeper.pc = "swept"
  /\ PollG \in jobsLock.r => poller.pc = "read"

\* C13: jobsLock is never held by a goroutine that is running a work function
\* or waiting on done / ctx.Done, and every StartJob, GetJobStatus,
\* CleanupCompletedJobs and updateStatus call that has begun eventually
\* completes.
C13_LockNeverBlocks ==
  /\ []HolderAboutToRelease
  /\ (submitter.pc # "idle") ~> (submitter.pc = "idle")
  /\ (poller.pc # "idle") ~> (poller.pc = "idle")
  /\ (sweeper.pc # "idle") ~> (sweeper.pc = "idle")
  /\ \A j \in Jobs : (wrk[j] = "inUpdate") ~> (wrk[j] # "inUpdate")

C15_NotFoundIffAbsent ==
  [][(poller.pc = "idle" /\ poller'.pc = "read") =>
       /\ (poller'.err # <<>>) <=> (jobs[poller'.id] = NoJob)
       /\ (poller'.ptr = NoJob) <=> (jobs[poller'.id] = NoJob)
       /\ jobs[poller'.id] # NoJob =>
            heap'[poller'.ptr] = heap[jobs[poller'.id]]
       /\ jobs' = jobs
       /\ \A j \in Started : heap'[j] = heap[j]]_vars

\* GetJobStatus reports not-found for the id of a job that was submitted and
\* has been removed by CleanupCompletedJobs
C15_Witness ==
  /\ poller.pc = "read"
  /\ poller.err = NotFoundMsg(poller.id)
  /\ \E j \in Started : heap[j].ID = poller.id /\ heap[j].State = "failed"

PollBeforeWork(j) ==
  /\ poller.pc = "idle" /\ poller'.pc = "read"
  /\ jobs[poller'.id] = j
  /\ sup[j] # "none"
  /\ wrk[j] \in {"none", "spawned"}

\* C17: every GetJobStatus poll made after StartJob returned and before the
\* work function has begun executing returns State "pending" or "processing".
C17_PollBeforeWorkNotTerminal ==
  [][\A j \in Jobs :
       PollBeforeWork(j) =>
         heap'[poller'.ptr].State \in {"pending", "processing"}]_vars

\* C17, amended: such a poll returns "pending" or "processing", or, once
\* maxDuration has elapsed, "failed" with the timeout message; never
\* "completed".
C17_PollBeforeWorkAmended ==
  [][\A j \in Jobs :
       PollBeforeWork(j) =>
         \/ heap'[poller'.ptr].State \in {"pending", "processing"}
         \/ /\ heap'[poller'.ptr].State = "failed"
            /\ heap'[poller'.ptr].Error = TimeoutMsg
            /\ now >= ctx[j].deadline]_vars

\* a poll has read "failed" for a job whose work function has not begun
C17_Witness ==
  /\ poller.pc = "read"
  /\ poller.ptr # NoJob
  /\ heap[poller.ptr].State = "failed"
  /\ wrk[jobs[poller.id]] = "spawned"

\* C18: the CompletionTime of a job record is assigned at the step that moves
\* State from "processing" to "completed" or "failed", and at no other step:
\* once set it keeps its value.
C18_CompletionTimeOnce ==
  [][\A j \in Started :
       /\ (heap[j].State = "processing" /\ Terminal(heap'[j].State)) =>
            heap'[j].CompletionTime = now
       /\ heap[j].CompletionTime # ZeroTime =>
            heap'[j].CompletionTime = heap[j].CompletionTime
       /\ heap'[j].CompletionTime # heap[j].CompletionTime =>
            heap[j].State = "processing" /\ Terminal(heap'[j].State)]_vars

\* C19: in every job record and every snapshot, Error is non-empty only if
\* State is "failed".
C19_ErrorOnlyIfFailed ==
  \A p \in DOMAIN heap : heap[p].Error # <<>> => heap[p].State = "failed"

\* C20: in every job record and every snapshot, Result is non-nil only if
\* State is "completed".
C20_ResultOnlyIfCompleted ==
  \A p \in DOMAIN heap : heap[p].Result # "nil" => heap[p].State = "completed"

\* C21: the Progress of every job record is an integer in 0..100.
C21_ProgressInRange ==
  \A j \in Started : heap[j].Progress \in 0..100

\* C22: the supervisor's deferred cancel() runs only after the worker has
\* closed done or the deadline has fired, and a job's context becomes done only
\* by its deadline, at or after the deadline instant, or by that cancel() after
\* the work function has returned: never while the work function is running
\* with the deadline still ahead.
C22_CancelDeadlineOnly ==
  [][\A j \in Jobs :
       /\ (sup[j] = "defer" /\ sup'[j] = "exited") =>
            \/ done[j] /\ wrk[j] = "exited"
            \/ ctx[j].err = "deadline"
       /\ (ctx[j].err = "none" /\ ctx'[j].err # "none") =>
            \/ ctx'[j].err = "deadline" /\ now >= ctx[j].deadline
            \/ ctx'[j].err = "canceled" /\ wrk[j] = "exited"]_vars

\* cancel() has cancelled the context of a job before its deadline, after the
\* work function completed the job through updateStatus and returned
C22_Witness ==
  \E j \in Started :
    /\ sup[j] = "exited"
    /\ ctx[j].err = "canceled"
    /\ now < ctx[j].deadline
    /\ heap[j].Result # "nil"

C24_TimeoutOnlyIfProcessing ==
  [][\A j \in Jobs :
       (sup[j] = "timeout" /\ sup'[j] = "timeoutLocked") =>
         IF heap[j].State = "processing"
           THEN heap'[j] = [heap[j] EXCEPT !.State = "failed",
                                           !.Error = TimeoutMsg,
                                           !.CompletionTime = now]
           ELSE /\ heap[j].State \in {"completed", "failed"}
                /\ heap'[j] = heap[j]]_vars

\* the timeout branch has run on a record that the worker had already written
\* "failed" with the work function's error, which is still in place
C24_Witness ==
  \E j \in Started :
    /\ sup[j] = "timeoutLocked"
    /\ heap[j].State = "failed"
    /\ heap[j].Error = ErrorMsg("e1")

\* C25: a CleanupCompletedJobs(olderThan) call removes no job whose terminal
\* State was written less than olderThan before the call: the CompletionTime
\* of every record it removes is at or before now - olderThan.
C25_SweepByConclusion ==
  [][(sweeper.pc = "called" /\ sweeper'.pc = "swept") =>
       \A id \in JobIds :
         (jobs[id] # NoJob /\ jobs'[id] = NoJob) =>
           heap[jobs[id]].CompletionTime <= sweeper.threshold]_vars

\* the jobs started under the id
StartedAs(id) == {j \in Started : heap[j].ID = id}

\* C26: StartJob makes the registry map the id to the record of the job it
\* starts, replacing any record registered under that id; an id in the
\* registry always maps to the newest job started under it; GetJobStatus(id)
\* returns a copy of that job's record; and no step that writes the record of
\* an older job with the same id changes the record the registry holds.
C26_NewestJobOnly ==
  [][/\ (submitter.pc = "idle" /\ submitter'.pc = "inserted") =>
          jobs'[heap'[started'].ID] = started'
     /\ \A id \in JobIds :
          jobs'[id] # NoJob =>
            jobs'[id] <= started' /\ heap'[jobs'[id]].ID = id
     /\ \A j \in Jobs :
          (j <= started' /\ jobs'[heap'[j].ID] # NoJob) =>
            j <= jobs'[heap'[j].ID]
     /\ (poller.pc = "idle" /\ poller'.pc = "read" /\ poller'.ptr # NoJob) =>
          /\ heap'[poller'.ptr] = heap[jobs[poller'.id]]
          /\ \A j \in StartedAs(poller'.id) : j <= jobs[poller'.id]
     /\ \A j \in Started :
          heap'[j] # heap[j] =>
            LET r == jobs[heap[j].ID] IN
              (r # NoJob /\ r # j) => heap'[r] = heap[r]]_vars

\* GetJobStatus has copied the "pending" record of the second job started under
\* an id while the record of the first job under that id is terminal
C26_Witness ==
  /\ poller.pc = "read"
  /\ poller.ptr # NoJob
  /\ jobs[poller.id] = 2
  /\ heap[1].ID = poller.id
  /\ Terminal(heap[1].State)
  /\ heap[poller.ptr].State = "pending"

\* C27: in every snapshot returned by GetJobStatus, CompletionTime is set
\* exactly when State is "completed" or "failed", and a "failed" State comes
\* with the Error of the branch that wrote it.
C27_TerminalWritesAtomic ==
  \A k \in 1..Len(snap) :
    snap[k].found =>
      LET s == heap[snap[k].ptr] IN
        /\ (s.CompletionTime # ZeroTime) <=> Terminal(s.State)
        /\ s.State = "failed" =>
             s.Error \in {TimeoutMsg} \cup {ErrorMsg(e) : e \in ErrVals \ {"nil"}}

\* a poll has returned a record "failed" by the worker's error branch, with the
\* error message and the completion time
C27_Witness ==
  \E k \in 1..Len(snap) :
    /\ snap[k].found
    /\ heap[snap[k].ptr].State = "failed"
    /\ heap[snap[k].ptr].Error = ErrorMsg("e1")
    /\ heap[snap[k].ptr].CompletionTime # ZeroTime

\* C28: an id that is not in the registry, because it was swept or never
\* submitted, enters it only by a StartJob call with that id, never by a step
\* of a job's goroutines; and GetJobStatus answers not-found for it meanwhile.
C28_SweptStaysSwept ==
  [][/\ \A id \in JobIds :
          (jobs[id] = NoJob /\ jobs'[id] # NoJob) =>
            /\ submitter.pc = "idle" /\ submitter'.pc = "inserted"
            /\ started' = started + 1
            /\ jobs'[id] = started'
     /\ (poller.pc = "idle" /\ poller'.pc = "read" /\ jobs[poller'.id] = NoJob) =>
          poller'.err = NotFoundMsg(poller'.id) /\ poller'.ptr = NoJob]_vars

\* the worker of a job makes its terminal write after the job's record has
\* been swept, and the id is still absent from the registry
C28_Witness ==
  \E j \in Started :
    /\ wrk[j] = "termLocked"
    /\ jobs[heap[j].ID] = NoJob

\* C29: a step of job j (its submission, its supervisor, its worker, its
\* updateStatus calls, its panic) changes no field of the record of any other
\* job, and leaves the registry entry of every other job id as it is.
C29_JobsIsolated ==
  [][\A j \in Jobs :
       (sup'[j] # sup[j] \/ wrk'[j] # wrk[j] \/ (started # j /\ started' = j)) =>
         \A k \in Started \ {j} :
           /\ heap'[k] = heap[k]
           /\ heap[k].ID # heap'[j].ID =>
                jobs'[heap[k].ID] = jobs[heap[k].ID]]_vars

\* the supervisor of one job has written its timeout while another job,
\* registered under a different id, is still "processing"
C29_Witness ==
  \E j \in Started : \E k \in Started \ {j} :
    /\ sup[j] = "timeoutLocked"
    /\ heap[j].Error = TimeoutMsg
    /\ heap[j].ID # heap[k].ID
    /\ jobs[heap[k].ID] = k
    /\ heap[k].State = "processing"

\* C30: the supervisor goroutine of every job eventually exits, whether or not
\* the work function returns, and at its exit, and only then, it calls
\* cancel(), so that the job's context is done from then on; and a worker whose
\* work function has returned, before or after the timeout, eventually closes
\* done and exits.
C30_GoroutinesExit ==
  /\ \A j \in Jobs : (j \in Started) ~> (sup[j] = "exited" /\ ctx[j].err # "none")
  /\ \A j \in Jobs : (wrk[j] = "returned") ~> (wrk[j] = "exited" /\ done[j])
  /\ [][\A j \in Jobs :
          /\ (sup[j] # "exited" /\ sup'[j] = "exited") =>
               sup[j] = "defer" /\ ctx'[j] = Cancel(ctx[j])
          /\ sup[j] = "exited" => sup'[j] = "exited" /\ ctx'[j] = ctx[j]
          /\ (ctx[j].err = "none" /\ ctx'[j].err = "canceled") =>
               sup'[j] = "exited"]_vars

====
